---- MODULE Spec2Model ----
(***************************************************************************)
(* Control plane of the PowerBi MCP Server AeC extension:                  *)
(*   - the MCP server process (server/mcpServer.ts): configuration load,   *)
(*     read-only override, file watcher, list-tools and call-tool;         *)
(*   - the tool registry and dispatcher (tools/index.ts);                  *)
(*   - the authentication provider (auth/authProvider.ts);                 *)
(*   - the chat relay (providers/chatWebViewProvider.ts) and its webview   *)
(*     script (media/chatPanel.js).                                        *)
(*                                                                         *)
(* JavaScript values that a hand-edited JSON file can put in a ToolsState  *)
(* are modelled by the strings "true", "false", "undefined", "0", "yes";   *)
(* an object is a function whose DOMAIN is its set of own keys.            *)
(***************************************************************************)
EXTENDS Integers, Sequences, FiniteSets, Bags, TLC

\* ------------------------------------------------------------------------
\* Bounds of the model
\* ------------------------------------------------------------------------
MaxUpdates == 1       \* updateConfig calls on the AuthProvider
MaxCalls == 1         \* getAccessToken calls / tool handlers in flight together
MaxTime == 2          \* clock ticks (one tick = one minute)
MaxTokens == 2        \* tokens the identity provider issues
MaxSends == 2         \* chat:send handlers that can be in flight together
MaxInbox == 2         \* panel requests the ConfigWebViewProvider has not handled yet
MaxLines == 2         \* lines of a streamed response body
MaxChunk == 3         \* bytes (units) one read of the response stream delivers at most
MaxDom == 4           \* message elements in the chat panel
MaxSpawns == 2        \* server child processes the extension spawns
MaxWaits == 1         \* restartServer calls waiting out their 500 ms

\* ------------------------------------------------------------------------
\* config/toolConfig.ts : ALL_TOOLS
\* ------------------------------------------------------------------------
ToolInfo(id, de, dz, adv) ==
  [id |-> id, defaultEnabled |-> de, isDestructive |-> dz, isAdvanced |-> adv]

ALL_TOOLS == <<
  ToolInfo("local_pbi_operations",         TRUE,  FALSE, FALSE),
  ToolInfo("get_semantic_model_schema",    TRUE,  FALSE, FALSE),
  ToolInfo("generate_query",               TRUE,  FALSE, FALSE),
  ToolInfo("execute_query",                TRUE,  FALSE, FALSE),
  ToolInfo("connection_operations",        TRUE,  FALSE, FALSE),
  ToolInfo("database_operations",          TRUE,  TRUE,  FALSE),
  ToolInfo("transaction_operations",       TRUE,  FALSE, FALSE),
  ToolInfo("table_operations",             TRUE,  TRUE,  FALSE),
  ToolInfo("column_operations",            TRUE,  TRUE,  FALSE),
  ToolInfo("measure_operations",           TRUE,  TRUE,  FALSE),
  ToolInfo("relationship_operations",      TRUE,  TRUE,  FALSE),
  ToolInfo("dax_query_operations",         TRUE,  FALSE, FALSE),
  ToolInfo("bulk_operations",              TRUE,  TRUE,  FALSE),
  ToolInfo("partition_operations",         FALSE, TRUE,  TRUE),
  ToolInfo("calculation_group_operations", FALSE, TRUE,  TRUE),
  ToolInfo("security_role_operations",     FALSE, TRUE,  TRUE),
  ToolInfo("perspective_operations",       FALSE, FALSE, TRUE),
  ToolInfo("trace_operations",             FALSE, FALSE, TRUE),
  ToolInfo("culture_operations",           FALSE, FALSE, TRUE) >>

AllToolIds == { ALL_TOOLS[i].id : i \in DOMAIN ALL_TOOLS }

DestructiveIds == { ALL_TOOLS[i].id : i \in { j \in DOMAIN ALL_TOOLS : ALL_TOOLS[j].isDestructive } }

\* a registry with a handler no descriptor of ALL_TOOLS names
TOOL_REGISTRY_Undeclared == {
  "local_pbi_operations", "get_semantic_model_schema", "generate_query",
  "execute_query", "connection_operations", "database_operations",
  "table_operations", "column_operations", "measure_operations",
  "relationship_operations", "dax_query_operations", "bulk_operations",
  "security_role_operations", "partition_operations",
  "calculation_group_operations", "trace_operations", "culture_operations",
  "hierarchy_operations" }

\* tools/index.ts : the own keys of TOOL_REGISTRY
TOOL_REGISTRY == {
  "local_pbi_operations", "get_semantic_model_schema", "generate_query",
  "execute_query", "connection_operations", "database_operations",
  "table_operations", "column_operations", "measure_operations",
  "relationship_operations", "dax_query_operations", "bulk_operations",
  "security_role_operations", "partition_operations",
  "calculation_group_operations", "trace_operations", "culture_operations" }

\* Property names every plain JavaScript object inherits from
\* Object.prototype: a lookup obj[name] finds them although they are not
\* own keys (TOOL_REGISTRY and a parsed ToolsState are plain objects).
ObjectPrototypeKeys == { "constructor", "toString" }

\* ------------------------------------------------------------------------
\* JavaScript values and property lookup
\* ------------------------------------------------------------------------
Falsy == { "false", "undefined", "0" }

Truthy(v) == v \notin Falsy

\* toolsState[id]
Lookup(ts, id) ==
  IF id \in DOMAIN ts THEN ts[id]
  ELSE IF id \in ObjectPrototypeKeys THEN "function"
  ELSE "undefined"

\* { ...ts, [id]: v }
Spread(ts, id, v) ==
  [k \in DOMAIN ts \cup {id} |-> IF k = id THEN v ELSE ts[k]]

BoolVal(b) == IF b THEN "true" ELSE "false"

\* config/toolConfig.ts : getDefaultToolsState
RECURSIVE DefaultsFrom(_, _)
DefaultsFrom(i, state) ==
  IF i > Len(ALL_TOOLS) THEN state
  ELSE DefaultsFrom(i + 1, Spread(state, ALL_TOOLS[i].id, BoolVal(ALL_TOOLS[i].defaultEnabled)))

EmptyObject == [k \in {} |-> "undefined"]

getDefaultToolsState == DefaultsFrom(1, EmptyObject)

\* ------------------------------------------------------------------------
\* config/permissionsManager.ts : permission profiles
\* ------------------------------------------------------------------------
ProfileNames == { "Somente Leitura", "Desenvolvedor", "Avancado", "Apenas DAX" }

DaxToolIds ==
  { "get_semantic_model_schema", "generate_query", "execute_query",
    "dax_query_operations", "measure_operations" }

\* the predicate each entry of PERMISSION_PROFILES hands to buildProfileState
ProfilePredicate(name, tool) ==
  CASE name = "Somente Leitura" -> ~tool.isDestructive /\ ~tool.isAdvanced
    [] name = "Desenvolvedor"   -> ~tool.isAdvanced
    [] name = "Avancado"        -> TRUE
    [] OTHER                    -> tool.id \in DaxToolIds

RECURSIVE ProfileStateFrom(_, _, _)
ProfileStateFrom(name, i, state) ==
  IF i > Len(ALL_TOOLS) THEN state
  ELSE ProfileStateFrom(name, i + 1,
         Spread(state, ALL_TOOLS[i].id, BoolVal(ProfilePredicate(name, ALL_TOOLS[i]))))

buildProfileState(name) == ProfileStateFrom(name, 1, EmptyObject)

\* isToolAllowed(toolId, toolsState): toolsState[toolId] === true
isToolAllowed(toolId, ts) == Lookup(ts, toolId) = "true"

\* applyProfile(profile): { ...profile.toolsState }
applyProfile(name) ==
  LET state == buildProfileState(name) IN [k \in DOMAIN state |-> state[k]]

\* ------------------------------------------------------------------------
\* tools/index.ts : registry lookup, list and dispatch
\* ------------------------------------------------------------------------
\* TOOL_REGISTRY[toolName]: an own entry, a member inherited from
\* Object.prototype (truthy, but without a handler), or undefined.
RegistryEntry(toolName) ==
  IF toolName \in TOOL_REGISTRY THEN "entry"
  ELSE IF toolName \in ObjectPrototypeKeys THEN "inherited"
  ELSE "undefined"

getEnabledToolDefinitions(ts) ==
  { id \in TOOL_REGISTRY : Lookup(ts, id) = "true" }

\* dispatchToolCall without its test of toolsState[toolName]
dispatchToolCall_NoGate(toolName, ts) ==
  IF RegistryEntry(toolName) = "undefined" THEN "UnknownTool"
  ELSE IF RegistryEntry(toolName) = "entry" THEN "handler"
  ELSE "TypeError"

\* The outcome of dispatchToolCall(toolName, args, client, toolsState):
\*   "UnknownTool"  throw new Error('Ferramenta desconhecida: ...')
\*   "ToolDisabled" throw new Error('Ferramenta ... esta desabilitada ...')
\*   "handler"      entry.handler(args, client) is invoked
\*   "TypeError"    entry.handler is not a function
dispatchToolCall(toolName, ts) ==
  IF RegistryEntry(toolName) = "undefined" THEN "UnknownTool"
  ELSE IF ~Truthy(Lookup(ts, toolName)) THEN "ToolDisabled"
  ELSE IF RegistryEntry(toolName) = "entry" THEN "handler"
  ELSE "TypeError"

\* ------------------------------------------------------------------------
\* server/mcpServer.ts : the read-only pass of main
\* ------------------------------------------------------------------------
RECURSIVE ReadOnlyFrom(_, _)
ReadOnlyFrom(i, ts) ==
  IF i > Len(ALL_TOOLS) THEN ts
  ELSE ReadOnlyFrom(i + 1,
         IF ALL_TOOLS[i].isDestructive THEN Spread(ts, ALL_TOOLS[i].id, "false") ELSE ts)

\* a pass that has gone over the second half of ALL_TOOLS only
ApplyReadOnly_HalfPass(ts) == ReadOnlyFrom(Len(ALL_TOOLS) \div 2, ts)

ApplyReadOnly(ts) == ReadOnlyFrom(1, ts)

\* ------------------------------------------------------------------------
\* Configurations
\* ------------------------------------------------------------------------
AuthConfig(m, tenant, secret) ==
  [method |-> m, tenantId |-> tenant, clientSecret |-> secret]

\* the auth section loadConfig falls back to (no POWERBI_TENANT_ID set)
DefaultAuth == AuthConfig("interactive", "common", "")

\* the auth sections the extension can write ('' is an absent value)
AuthConfigs == {
  AuthConfig("interactive", "", ""),
  AuthConfig("deviceCode", "contoso", ""),
  AuthConfig("clientCredentials", "contoso", "s3cret"),
  AuthConfig("clientCredentials", "contoso", ""),
  AuthConfig("clientCredentials", "", "s3cret") }

AllEnabled == [id \in AllToolIds |-> "true"]

\* a hand-edited tools section: keys missing, one value not a boolean
HandEdited == [id \in {"table_operations", "execute_query", "generate_query"} |->
                 IF id = "table_operations" THEN "true"
                 ELSE IF id = "execute_query" THEN "yes" ELSE "false"]

ServerConfig(tools, a, ro, confirm) ==
  [parses |-> TRUE, tools |-> tools, auth |-> a, readOnly |-> ro,
   requireConfirmation |-> confirm]

\* content that JSON.parse rejects (truncated or otherwise malformed)
Malformed ==
  [parses |-> FALSE, tools |-> EmptyObject, auth |-> DefaultAuth, readOnly |-> FALSE,
   requireConfirmation |-> FALSE]

\* the contents the configuration file takes in the model
FileContents == {
  ServerConfig(getDefaultToolsState, AuthConfig("interactive", "", ""), FALSE, TRUE),
  ServerConfig(AllEnabled, AuthConfig("interactive", "", ""), TRUE, TRUE),
  ServerConfig(getDefaultToolsState, AuthConfig("clientCredentials", "contoso", "s3cret"), FALSE, FALSE),
  ServerConfig(HandEdited, AuthConfig("clientCredentials", "contoso", ""), TRUE, TRUE),
  Malformed }

\* server/mcpServer.ts : loadConfig
loadConfig(file, envRO) ==
  IF file.parses THEN file
  ELSE ServerConfig(getDefaultToolsState, DefaultAuth, envRO, TRUE)

\* the tool names a caller sends in the model
CallNames == {
  "get_semantic_model_schema", "table_operations", "transaction_operations",
  "no_such_tool", "constructor" }

\* ------------------------------------------------------------------------
\* auth/authProvider.ts : AuthProvider
\* ------------------------------------------------------------------------
\* 5 * 60 * 1000 ms, in minutes
BufferMinutes == 5

\* lifetimes (minutes) of the tokens the identity provider issues;
\* NoExpiry is a result whose expiresOn is null
NoExpiry == -1
Lifetimes == { 7, NoExpiry }

\* this.pca / this.cca: undefined, or the client object built by the
\* initializeClients run number n (it holds that configuration's credentials)
NoClient == -1

\* this.cachedToken = undefined
NoToken == [id |-> 0, expiresOn |-> NoExpiry, client |-> NoClient, epoch |-> 0]

\* initializeClients(): exactly one of the two members is assigned, the
\* other keeps whatever it held
initializeClients(a) ==
  IF a.config.method = "clientCredentials" /\ a.config.clientSecret # ""
  THEN [a EXCEPT !.cca = a.epoch]
  ELSE [a EXCEPT !.pca = a.epoch]

\* constructor(config)
NewAuthProvider(config) ==
  initializeClients([config |-> config, pca |-> NoClient, cca |-> NoClient,
                     cachedToken |-> NoToken, epoch |-> 0])

\* updateConfig(config); epoch counts the configurations installed so far
updateConfig(a, config) ==
  initializeClients([a EXCEPT !.config = config, !.cachedToken = NoToken,
                              !.epoch = a.epoch + 1])

\* clearCache()
clearCache(a) == [a EXCEPT !.cachedToken = NoToken]

\* the cache test with the operands of the subtraction exchanged
CacheUsable_Swapped(a, t) ==
  /\ a.cachedToken # NoToken
  /\ a.cachedToken.expiresOn # NoExpiry
  /\ t - a.cachedToken.expiresOn > BufferMinutes

\* the cache test of getAccessToken at time t
CacheUsable(a, t) ==
  /\ a.cachedToken # NoToken
  /\ a.cachedToken.expiresOn # NoExpiry
  /\ a.cachedToken.expiresOn - t > BufferMinutes

\* acquireToken(), up to its first suspension: the position the call
\* reaches and the client object whose request it awaits.
\*   "accounts"   awaiting pca.getAllAccounts()
\*   "deviceCode" awaiting pca.acquireTokenByDeviceCode()
\*   "clientCred" awaiting cca.acquireTokenByClientCredential()
\*   "failed"     an Error was thrown before any request
acquireToken(a) ==
  CASE a.config.method = "interactive" ->
         IF a.pca = NoClient THEN [pc |-> "failed", client |-> NoClient]
         ELSE [pc |-> "accounts", client |-> a.pca]
    [] a.config.method = "deviceCode" ->
         IF a.pca = NoClient THEN [pc |-> "failed", client |-> NoClient]
         ELSE [pc |-> "deviceCode", client |-> a.pca]
    [] a.config.method = "clientCredentials" ->
         IF a.cca = NoClient THEN [pc |-> "failed", client |-> NoClient]
         ELSE IF a.config.tenantId = "" THEN [pc |-> "failed", client |-> NoClient]
         ELSE [pc |-> "clientCred", client |-> a.cca]
    [] OTHER -> [pc |-> "failed", client |-> NoClient]

\* positions at which a token request to the identity provider is pending
Requesting == { "silent", "interactive", "deviceCode", "clientCred" }

\* ------------------------------------------------------------------------
\* State of the MCP server process
\* ------------------------------------------------------------------------
VARIABLES
  cfgFile,      \* content of the file POWERBI_MCP_AEC_CONFIG names
  fileChanged,  \* the file changed since fs.watchFile last reported
  envReadOnly,  \* POWERBI_READ_ONLY === 'true'
  srv,          \* "init" before main() has run, "running" after
  toolsState,   \* main's toolsState
  loadedRO,     \* readOnly of the configuration loadConfig returned last
  auth,         \* the AuthProvider singleton
  calls,        \* the getAccessToken calls / tool handlers in flight (a bag)
  now,          \* Date.now(), in minutes
  issued,       \* number of tokens the identity provider has issued
  lastAcq,      \* the latest successful acquisition (time, token id and
                \* expiry); NoAcq once updateConfig or clearCache ran after it
  ev            \* what the latest step answered to its caller

srvVars == << cfgFile, fileChanged, envReadOnly, srv, toolsState, loadedRO,
              auth, calls, now, issued, lastAcq, ev >>

\* providers/chatWebViewProvider.ts and media/chatPanel.js
VARIABLES
  isStreaming,  \* chatPanel.js : isStreaming
  sends,        \* the chat:send handlers of the provider that are in flight
  ctsOwner,     \* the send whose token source this._cancellationTokenSource is
  abortOwner,   \* the send whose controller this._abortController is
  posted        \* the message the latest step posted to the webview

chatVars == << isStreaming, sends, ctsOwner, abortOwner, posted >>

\* providers/configWebViewProvider.ts and media/configPanel.js
VARIABLES
  settings,     \* the powerbiMcpAec tool settings of VS Code, by tool id
                \* ("undefined": the setting is not set)
  inbox,        \* requests of the panel the provider has not handled yet
  applied       \* the profile whose last updateConfig message the latest
                \* step handled ("" when it handled none)

panelVars == << settings, inbox, applied >>

\* the decode loop of _sendViaGemini / _sendViaGroq over one response stream
VARIABLES
  decProvider,  \* "gemini" or "groq"
  sent,         \* the bytes of the whole response body, in order
  pos,          \* how many of them the transport has delivered
  buffer,       \* the local variable buffer (characters)
  emitted,      \* the texts of the chat:chunk messages posted, in order
  sawBad,       \* a data line whose payload JSON.parse rejects has been met
  thrown,       \* the message of the error the transport threw ("" for none)
  decPosted     \* the terminal message posted ("" while the loop runs)

decVars == << decProvider, sent, pos, buffer, emitted, sawBad, thrown, decPosted >>

\* media/chatPanel.js : the message list of the chat panel, and the
\* message list the provider builds for a chat:send
VARIABLES
  dom,          \* the .message elements of messagesEl: role (class) and innerHTML
  active,       \* the position of activeMessageEl in dom (0: none, or detached)
  request       \* what the latest step handed to the language model

histVars == << dom, active, request >>

\* extension.ts : the server child process and the status bar
VARIABLES
  serverProcess, \* 0 for undefined, or the number of the ChildProcess object
  serverStatus,  \* 'stopped', 'starting', 'running' or 'error'
  children,      \* the ChildProcess objects spawned so far: state of the
                 \* operating-system process and the killed flag
  timers,        \* start timers (500 ms) that have not fired yet
  waits          \* restartServer calls between stopServer and startServer

extVars == << serverProcess, serverStatus, children, timers, waits >>

restVars == << decVars, histVars, extVars >>

vars == << srvVars, chatVars, panelVars, restVars >>

NoAcq == [at |-> 0, id |-> 0, expiresOn |-> NoExpiry]

\* a call that has ended
IdleCall ==
  [pc |-> "idle", owner |-> "", client |-> NoClient, startEpoch |-> 0,
   reqEpoch |-> 0]

\* The answer of a step: the CallTool outcome (kind "call"), the position a
\* getAccessToken call reached at once (kind "call" or "get") or at the end
\* of its acquisition (kind "settle"), with the token it returned, whether
\* it sent a token request, and the epoch it started in
NoEvent ==
  [kind |-> "none", name |-> "", outcome |-> "", pc |-> "", token |-> NoToken,
   attempted |-> FALSE, startEpoch |-> 0, code |-> ""]

\* the catch block of the CallToolRequestSchema handler: the code of the
\* McpError a tool call is answered with, whatever was thrown
McpErrorCode == "InternalError"

\* the calls in flight, and whether one more can start
InFlightCalls == BagToSet(calls)

CanStart == BagCardinality(calls) < MaxCalls

\* calls with one more call started, and with call c replaced by what it
\* became (a call that has ended is in flight no more)
Started(call) == IF call = IdleCall THEN calls ELSE calls (+) SetToBag({call})

Became(c, call) ==
  IF call = IdleCall THEN calls (-) SetToBag({c})
  ELSE (calls (-) SetToBag({c})) (+) SetToBag({call})

\* getAccessToken() with a cache test that leaves the 5 minutes out
getAccessToken_NoBuffer(a, t) ==
  IF a.cachedToken # NoToken /\ a.cachedToken.expiresOn # NoExpiry
     /\ a.cachedToken.expiresOn - t > 0
  THEN [pc |-> "returned", client |-> NoClient, token |-> a.cachedToken]
  ELSE LET r == acquireToken(a)
       IN [pc |-> r.pc, client |-> r.client, token |-> NoToken]

\* getAccessToken(), up to its first suspension: the position reached,
\* the client whose request is awaited and the token returned from the cache
getAccessToken(a, t) ==
  IF CacheUsable(a, t)
  THEN [pc |-> "returned", client |-> NoClient, token |-> a.cachedToken]
  ELSE LET r == acquireToken(a)
       IN [pc |-> r.pc, client |-> r.client, token |-> NoToken]

\* a call that went as far as r on behalf of owner ("tool" for a tool
\* handler, "" for a direct call): a tool handler that got its token goes on
\* with its remote call, any other call that returned or failed has ended
CallAfter(r, owner, epoch) ==
  IF r.pc = "failed" THEN IdleCall
  ELSE IF r.pc = "returned"
       THEN IF owner = "" THEN IdleCall ELSE [IdleCall EXCEPT !.pc = "remote", !.owner = owner]
       ELSE [pc |-> r.pc, owner |-> owner, client |-> r.client, startEpoch |-> epoch,
             reqEpoch |-> IF r.pc \in Requesting THEN epoch ELSE 0]

\* ------------------------------------------------------------------------
\* Actions of the MCP server process
\* ------------------------------------------------------------------------
\* main(): load the configuration, apply the read-only pass, create the
\* AuthProvider and register the handlers and the file watcher
Main ==
  /\ srv = "init"
  /\ LET config == loadConfig(cfgFile, envReadOnly)
     IN /\ toolsState' = IF config.readOnly THEN ApplyReadOnly(config.tools)
                         ELSE config.tools
        /\ auth' = NewAuthProvider(config.auth)
        /\ loadedRO' = config.readOnly
  /\ srv' = "running"
  /\ fileChanged' = FALSE
  /\ ev' = [NoEvent EXCEPT !.kind = "main"]
  /\ UNCHANGED << cfgFile, envReadOnly, calls, now, issued, lastAcq >>
  /\ UNCHANGED << chatVars, panelVars, restVars >>

\* the extension (writeServerConfigFile) or an editor rewrites the file; a
\* write the watcher polls half-way is seen as content that does not parse;
\* the watcher sees the writes between two polls as one change
WriteFile(content) ==
  /\ auth.epoch < MaxUpdates
  /\ ~fileChanged
  /\ cfgFile' = content
  /\ fileChanged' = (srv = "running")
  /\ ev' = NoEvent
  /\ UNCHANGED << envReadOnly, srv, toolsState, loadedRO, auth, calls, now,
                  issued, lastAcq >>
  /\ UNCHANGED << chatVars, panelVars, restVars >>

\* the fs.watchFile callback
WatchFileCallback ==
  /\ srv = "running"
  /\ fileChanged
  /\ auth.epoch < MaxUpdates
  /\ LET newConfig == loadConfig(cfgFile, envReadOnly)
     IN /\ toolsState' = newConfig.tools
        /\ auth' = updateConfig(auth, newConfig.auth)
        /\ loadedRO' = newConfig.readOnly
  /\ fileChanged' = FALSE
  /\ lastAcq' = NoAcq
  /\ ev' = [NoEvent EXCEPT !.kind = "reload"]
  /\ UNCHANGED << cfgFile, envReadOnly, srv, calls, now, issued >>
  /\ UNCHANGED << chatVars, panelVars, restVars >>

\* the fs.watchFile callback when the constructor of the MSAL client throws
\* inside initializeClients: toolsState, this.config and this.cachedToken
\* have been assigned, this.pca / this.cca have not, and the catch block of
\* the callback logs the error
WatchFileCallbackThrows ==
  /\ srv = "running"
  /\ fileChanged
  /\ auth.epoch < MaxUpdates
  /\ LET newConfig == loadConfig(cfgFile, envReadOnly)
     IN /\ toolsState' = newConfig.tools
        /\ auth' = [auth EXCEPT !.config = newConfig.auth, !.cachedToken = NoToken,
                                !.epoch = auth.epoch + 1]
        /\ loadedRO' = newConfig.readOnly
  /\ fileChanged' = FALSE
  /\ lastAcq' = NoAcq
  /\ ev' = [NoEvent EXCEPT !.kind = "reload", !.outcome = "threw"]
  /\ UNCHANGED << cfgFile, envReadOnly, srv, calls, now, issued >>
  /\ UNCHANGED << chatVars, panelVars, restVars >>

\* the CallToolRequestSchema handler: dispatchToolCall, and the start of
\* the tool handler, whose request first asks the AuthProvider for a token
CallTool(name) ==
  /\ srv = "running"
  /\ LET outcome == dispatchToolCall(name, toolsState)
         r == getAccessToken(auth, now)
     IN IF outcome = "handler"
        THEN /\ CanStart
             /\ calls' = Started(CallAfter(r, "tool", auth.epoch))
             /\ ev' = [kind |-> "call", name |-> name, outcome |-> outcome,
                       pc |-> r.pc, token |-> r.token,
                       attempted |-> r.pc \in Requesting, startEpoch |-> auth.epoch,
                       code |-> IF r.pc = "failed" THEN McpErrorCode ELSE ""]
        ELSE /\ calls' = calls
             /\ ev' = [NoEvent EXCEPT !.kind = "call", !.name = name,
                                      !.outcome = outcome, !.code = McpErrorCode]
  /\ UNCHANGED << cfgFile, fileChanged, envReadOnly, srv, toolsState, loadedRO,
                  auth, now, issued, lastAcq >>
  /\ UNCHANGED << chatVars, panelVars, restVars >>

\* the remote call of a tool handler that holds its token ends
RemoteResult(c, ok) ==
  /\ c.pc = "remote"
  /\ calls' = Became(c, IdleCall)
  /\ ev' = [NoEvent EXCEPT !.kind = "result", !.name = c.owner,
                           !.outcome = IF ok THEN "ok" ELSE "UpstreamFailure",
                           !.code = IF ok THEN "" ELSE McpErrorCode]
  /\ UNCHANGED << cfgFile, fileChanged, envReadOnly, srv, toolsState, loadedRO,
                  auth, now, issued, lastAcq >>
  /\ UNCHANGED << chatVars, panelVars, restVars >>

\* the command powerbiMcpAec.clearToken of the extension (also run for the
\* panel's clearToken message): it shows an information message and writes
\* a log line
ClearTokenCommand ==
  /\ ev' = [NoEvent EXCEPT !.kind = "clearToken"]
  /\ UNCHANGED << cfgFile, fileChanged, envReadOnly, srv, toolsState, loadedRO,
                  auth, calls, now, issued, lastAcq >>
  /\ UNCHANGED << chatVars, panelVars, restVars >>

\* ------------------------------------------------------------------------
\* Actions of the AuthProvider
\* ------------------------------------------------------------------------
\* a caller invokes getAccessToken()
GetAccessToken ==
  /\ CanStart
  /\ LET r == getAccessToken(auth, now)
     IN /\ calls' = Started(CallAfter(r, "", auth.epoch))
        /\ ev' = [NoEvent EXCEPT !.kind = "get", !.pc = r.pc, !.token = r.token,
                                 !.attempted = r.pc \in Requesting,
                                 !.startEpoch = auth.epoch]
  /\ UNCHANGED << cfgFile, fileChanged, envReadOnly, srv, toolsState, loadedRO,
                  auth, now, issued, lastAcq >>
  /\ UNCHANGED << chatVars, panelVars, restVars >>

\* acquireInteractive: pca.getAllAccounts() resolves; the next request
\* goes to whatever this.pca is now
AccountsResolved(c, hasAccounts) ==
  /\ c.pc = "accounts"
  /\ calls' = Became(c, [c EXCEPT !.pc = IF hasAccounts THEN "silent" ELSE "interactive",
                                  !.client = auth.pca,
                                  !.reqEpoch = auth.epoch])
  /\ ev' = NoEvent
  /\ UNCHANGED << cfgFile, fileChanged, envReadOnly, srv, toolsState, loadedRO,
                  auth, now, issued, lastAcq >>
  /\ UNCHANGED << chatVars, panelVars, restVars >>

\* getAccessToken after `await this.acquireToken()` delivered a result
Acquired(c, life) ==
  LET token == [id |-> issued + 1,
                expiresOn |-> IF life = NoExpiry THEN NoExpiry ELSE now + life,
                client |-> c.client,
                epoch |-> c.reqEpoch]
  IN /\ issued < MaxTokens
     /\ auth' = [auth EXCEPT !.cachedToken = token]
     /\ calls' = Became(c, CallAfter([pc |-> "returned"], c.owner, 0))
     /\ lastAcq' = [at |-> now, id |-> token.id, expiresOn |-> token.expiresOn]
     /\ issued' = issued + 1
     /\ ev' = [NoEvent EXCEPT !.kind = "settle", !.pc = "returned", !.token = token,
                              !.attempted = TRUE, !.startEpoch = c.startEpoch]
     /\ UNCHANGED << cfgFile, fileChanged, envReadOnly, srv, toolsState, loadedRO,
                     now >>
     /\ UNCHANGED << chatVars, panelVars, restVars >>

\* acquireInteractive: pca.acquireTokenSilent() settles; a rejection is
\* swallowed and followed by pca.acquireTokenInteractive()
SilentResult(c, ok, life) ==
  /\ c.pc = "silent"
  /\ IF ok THEN Acquired(c, life)
     ELSE /\ calls' = Became(c, [c EXCEPT !.pc = "interactive", !.client = auth.pca,
                                          !.reqEpoch = auth.epoch])
          /\ ev' = NoEvent
          /\ UNCHANGED << cfgFile, fileChanged, envReadOnly, srv, toolsState,
                          loadedRO, auth, now, issued, lastAcq, chatVars,
                          panelVars, restVars >>

\* a getAccessToken that drops the cached token when its request is rejected
RequestResult_DropsCache(c, ok, life) ==
  /\ c.pc \in { "interactive", "deviceCode", "clientCred" }
  /\ IF ok THEN Acquired(c, life)
     ELSE /\ calls' = Became(c, IdleCall)
          /\ auth' = clearCache(auth)
          /\ ev' = [NoEvent EXCEPT !.kind = "settle", !.pc = "failed",
                                   !.name = c.owner,
                                   !.attempted = TRUE,
                                   !.startEpoch = c.startEpoch,
                                   !.code = IF c.owner = "" THEN "" ELSE McpErrorCode]
          /\ UNCHANGED << cfgFile, fileChanged, envReadOnly, srv, toolsState,
                          loadedRO, now, issued, lastAcq, chatVars, panelVars, restVars >>

\* acquireTokenInteractive / acquireTokenByDeviceCode /
\* acquireTokenByClientCredential settles
RequestResult(c, ok, life) ==
  /\ c.pc \in { "interactive", "deviceCode", "clientCred" }
  /\ IF ok THEN Acquired(c, life)
     ELSE /\ calls' = Became(c, IdleCall)
          /\ ev' = [NoEvent EXCEPT !.kind = "settle", !.pc = "failed",
                                   !.name = c.owner,
                                   !.attempted = TRUE,
                                   !.startEpoch = c.startEpoch,
                                   !.code = IF c.owner = "" THEN "" ELSE McpErrorCode]
          /\ UNCHANGED << cfgFile, fileChanged, envReadOnly, srv, toolsState,
                          loadedRO, auth, now, issued, lastAcq, chatVars,
                          panelVars, restVars >>

\* a caller invokes updateConfig(config)
UpdateConfig(config) ==
  /\ auth.epoch < MaxUpdates
  /\ auth' = updateConfig(auth, config)
  /\ lastAcq' = NoAcq
  /\ ev' = NoEvent
  /\ UNCHANGED << cfgFile, fileChanged, envReadOnly, srv, toolsState, loadedRO,
                  calls, now, issued >>
  /\ UNCHANGED << chatVars, panelVars, restVars >>

\* a caller invokes clearCache()
ClearCache ==
  /\ auth' = clearCache(auth)
  /\ lastAcq' = NoAcq
  /\ ev' = NoEvent
  /\ UNCHANGED << cfgFile, fileChanged, envReadOnly, srv, toolsState, loadedRO,
                  calls, now, issued >>
  /\ UNCHANGED << chatVars, panelVars, restVars >>

\* a minute passes
Tick ==
  /\ now < MaxTime
  /\ now' = now + 1
  /\ ev' = NoEvent
  /\ UNCHANGED << cfgFile, fileChanged, envReadOnly, srv, toolsState, loadedRO,
                  auth, calls, issued, lastAcq >>
  /\ UNCHANGED << chatVars, panelVars, restVars >>


\* ------------------------------------------------------------------------
\* providers/chatWebViewProvider.ts and media/chatPanel.js
\* ------------------------------------------------------------------------
SendIds == 1..MaxSends

Providers == { "copilot", "gemini", "groq" }

\* a slot no handler occupies
NoSend ==
  [provider |-> "", pc |-> "idle", cancelled |-> FALSE, cancelSeen |-> FALSE,
   detached |-> FALSE]

InFlight(s) == sends[s].pc # "idle"

FirstFreeSend ==
  CHOOSE s \in SendIds : ~InFlight(s) /\ \A t \in SendIds : ~InFlight(t) => s <= t

\* ctsOwner / abortOwner when the field is unset or holds the object of a
\* send that has ended (cancelling it reaches no running send)
NoOwner == 0

\* the error messages the catch block of chat:send takes for a cancellation
\* (each stands for the messages that include it); an aborted request or
\* stream throws "canceled", every other failure a message outside this set
CancelMessages == { "Cancelled", "AbortError", "canceled" }

\* the catch block of chat:send: the message type it posts for an error
CatchPosts(errorMsg) ==
  IF errorMsg \in CancelMessages THEN "chat:done" ELSE "chat:error"

\* a posted message: its type, the send it belongs to, whether the handler
\* of that send returned with it, and whether a chat:cancel had been handled
\* while that send was in flight
Post(type, s, ended) ==
  [type |-> type, send |-> s, ended |-> ended, afterCancel |-> sends[s].cancelSeen]

NoPost == [type |-> "none", send |-> 0, ended |-> FALSE, afterCancel |-> FALSE]

\* webview.postMessage of a terminal message: onDone / onError of the panel
\* script reset isStreaming, unless the webview the send came from is gone
AfterTerminal(s) == IF sends[s].detached THEN isStreaming ELSE FALSE

\* the handler of send s posts a terminal message and returns
Finish(s, type) ==
  /\ sends' = [sends EXCEPT ![s] = NoSend]
  /\ posted' = Post(type, s, TRUE)
  /\ isStreaming' = AfterTerminal(s)
  /\ ctsOwner' = IF ctsOwner = s THEN NoOwner ELSE ctsOwner
  /\ abortOwner' = IF abortOwner = s THEN NoOwner ELSE abortOwner

\* an error thrown inside _sendViaX reaches the catch block of chat:send,
\* which posts the terminal message
Throw(s, errorMsg) == Finish(s, CatchPosts(errorMsg))

\* chatPanel.js sendMessage (not while isStreaming) and the provider's
\* chat:send case up to the first await of _sendViaCopilot (which creates
\* the CancellationTokenSource first) or of _sendViaGemini / _sendViaGroq
\* (which await the API key before they create the AbortController)
ChatSend(provider) ==
  /\ ~isStreaming
  /\ \E s \in SendIds : ~InFlight(s)
  /\ isStreaming' = TRUE
  /\ sends' = [sends EXCEPT ![FirstFreeSend] =
                 [NoSend EXCEPT !.provider = provider,
                                !.pc = IF provider = "copilot" THEN "selectModels"
                                       ELSE "getKey"]]
  /\ ctsOwner' = IF provider = "copilot" THEN FirstFreeSend ELSE ctsOwner
  /\ posted' = NoPost
  /\ UNCHANGED << abortOwner, srvVars, panelVars, restVars >>

\* the send button clicked while isStreaming posts chat:cancel; the
\* provider cancels the token source and aborts the controller it holds
ChatCancel ==
  /\ isStreaming
  /\ sends' = [s \in SendIds |->
                 IF InFlight(s)
                 THEN [sends[s] EXCEPT !.cancelSeen = TRUE,
                                       !.cancelled = @ \/ s \in { ctsOwner, abortOwner }]
                 ELSE sends[s]]
  /\ posted' = NoPost
  /\ UNCHANGED << isStreaming, ctsOwner, abortOwner, srvVars, panelVars, restVars >>

\* the view is hidden and shown again: resolveWebviewView builds a new
\* webview whose script starts anew (isStreaming = false), while the
\* provider object and the handlers it is running live on
WebviewReload ==
  /\ isStreaming
  /\ isStreaming' = FALSE
  /\ sends' = [s \in SendIds |->
                 IF InFlight(s) THEN [sends[s] EXCEPT !.detached = TRUE]
                 ELSE sends[s]]
  /\ posted' = NoPost
  /\ UNCHANGED << ctsOwner, abortOwner, srvVars, panelVars, restVars >>

\* _sendViaCopilot: selectChatModels resolved
ModelsSelected(s, found) ==
  /\ sends[s].pc = "selectModels"
  /\ IF found
     THEN /\ sends' = [sends EXCEPT ![s].pc = "request"]
          /\ posted' = NoPost
          /\ UNCHANGED << isStreaming, ctsOwner, abortOwner >>
     ELSE Throw(s, "GitHub Copilot nao encontrado")
  /\ UNCHANGED << srvVars, panelVars, restVars >>

\* _sendViaGemini / _sendViaGroq: secrets.get resolved
KeyResolved(s, hasKey) ==
  /\ sends[s].pc = "getKey"
  /\ IF hasKey
     THEN /\ sends' = [sends EXCEPT ![s].pc = "request"]
          /\ abortOwner' = s
          /\ posted' = NoPost
          /\ UNCHANGED << isStreaming, ctsOwner >>
     ELSE Throw(s, "Chave da API nao configurada")
  /\ UNCHANGED << srvVars, panelVars, restVars >>

\* model.sendRequest / axios.post settles; a cancelled token or an aborted
\* signal makes it reject with the transport's cancellation error
RequestSettled(s, ok) ==
  /\ sends[s].pc = "request"
  /\ IF sends[s].cancelled THEN Throw(s, "canceled")
     ELSE IF ok
          THEN /\ sends' = [sends EXCEPT ![s].pc = "stream"]
               /\ posted' = NoPost
               /\ UNCHANGED << isStreaming, ctsOwner, abortOwner >>
          ELSE Throw(s, "Network Error")
  /\ UNCHANGED << srvVars, panelVars, restVars >>

\* the for-await loop reads a part of the response; a part that carries
\* text is posted as chat:chunk, any other is skipped
StreamRead(s, hasText) ==
  /\ sends[s].pc = "stream"
  /\ ~sends[s].cancelled
  /\ posted' = IF hasText THEN Post("chat:chunk", s, FALSE) ELSE NoPost
  /\ UNCHANGED << isStreaming, sends, ctsOwner, abortOwner, srvVars, panelVars, restVars >>

\* a stream end that returns without posting chat:done
StreamEnd_Silent(s) ==
  /\ sends[s].pc = "stream"
  /\ ~sends[s].cancelled
  /\ Finish(s, "none")
  /\ UNCHANGED << srvVars, panelVars, restVars >>

\* the response stream ends: chat:done is posted
StreamEnd(s) ==
  /\ sends[s].pc = "stream"
  /\ ~sends[s].cancelled
  /\ Finish(s, "chat:done")
  /\ UNCHANGED << srvVars, panelVars, restVars >>

\* the response stream fails: with the cancellation error when the send was
\* cancelled, with a transport error otherwise
StreamError(s) ==
  /\ sends[s].pc = "stream"
  /\ Throw(s, IF sends[s].cancelled THEN "canceled" ELSE "Network Error")
  /\ UNCHANGED << srvVars, panelVars, restVars >>

\* ------------------------------------------------------------------------
\* Actions of the configuration panel and its provider
\* ------------------------------------------------------------------------
\* the tools whose checkbox the user toggles by hand in the model
ToggleIds == { "table_operations", "trace_operations" }

\* a request of the panel: the updateConfig message of one checkbox, or the
\* updateConfig messages applyProfile posts in one loop, of which the one
\* for ALL_TOOLS[next] is the first that has not been handled
ToggleJob(id, value) == [profile |-> "", next |-> 0, id |-> id, value |-> value]

ProfileJob(name) == [profile |-> name, next |-> 1, id |-> "", value |-> ""]

\* a value applyProfile of the panel posts with the negation of its test
PostedValue_Negated(state, id) == BoolVal(Lookup(state, id) = "false")

\* configPanel.js applyProfile: the value posted for a tool
PostedValue(state, id) == BoolVal(Lookup(state, id) # "false")

\* the provider's updateConfig case: vsConfig.update(section, value)
UpdateSetting(st, id, value) == [st EXCEPT ![id] = value]

\* the user clicks a profile button: applyProfile posts one updateConfig
\* message per tool
PanelApplyProfile(name) ==
  /\ Len(inbox) < MaxInbox
  /\ inbox' = Append(inbox, ProfileJob(name))
  /\ applied' = ""
  /\ UNCHANGED << settings, srvVars, chatVars, restVars >>

\* the user toggles the checkbox of one tool
PanelToggle(id, enabled) ==
  /\ Len(inbox) < MaxInbox
  /\ inbox' = Append(inbox, ToggleJob(id, BoolVal(enabled)))
  /\ applied' = ""
  /\ UNCHANGED << settings, srvVars, chatVars, restVars >>

\* ConfigWebViewProvider._handleMessage handles the oldest updateConfig
\* message
HandleUpdateConfig ==
  /\ inbox # << >>
  /\ LET job == Head(inbox)
         tool == ALL_TOOLS[job.next]
     IN IF job.profile = ""
        THEN /\ settings' = UpdateSetting(settings, job.id, job.value)
             /\ inbox' = Tail(inbox)
             /\ applied' = ""
        ELSE /\ settings' = UpdateSetting(settings, tool.id,
                                          PostedValue(applyProfile(job.profile), tool.id))
             /\ inbox' = IF job.next = Len(ALL_TOOLS) THEN Tail(inbox)
                         ELSE << [job EXCEPT !.next = @ + 1] >> \o Tail(inbox)
             /\ applied' = IF job.next = Len(ALL_TOOLS) THEN job.profile ELSE ""
  /\ UNCHANGED << srvVars, chatVars, restVars >>

\* ------------------------------------------------------------------------
\* The decode loop of _sendViaGemini / _sendViaGroq
\* ------------------------------------------------------------------------
\* The bytes of a response body are taken in units: "data: " (the ASCII
\* prefix), "LF" (the line feed), "C3" and "A9" (the two bytes of the UTF-8
\* encoding of U+00E9), and one unit for each run of ASCII bytes that is
\* never decoded in part: "a" and the like. After the prefix, the units of
\* a line stand for the JSON envelope around the text they spell: "a" for
\* an envelope whose text is a, "{" for a JSON text that is cut short.
BodyLines == {
  << "data: ", "a" >>,
  << "data: ", "C3", "A9" >>,
  << "data: ", "{" >>,
  << "data: ", "[DONE]" >>,
  << ": ping" >> }

RECURSIVE JoinLines(_)
JoinLines(ls) ==
  IF ls = << >> THEN << >> ELSE Head(ls) \o << "LF" >> \o JoinLines(Tail(ls))

\* the response bodies of the model: up to MaxLines lines, the last one
\* with or without its line feed
ResponseBodies ==
  LET bodies == { JoinLines(ls) : ls \in UNION { [1..k -> BodyLines] : k \in 1..MaxLines } }
  IN bodies \cup { SubSeq(b, 1, Len(b) - 1) : b \in bodies }

\* chunk.toString(): UTF-8 decoding of the bytes of one chunk on their own;
\* a sequence cut by the chunk's boundary decodes to U+FFFD
RECURSIVE toString(_)
toString(bytes) ==
  IF bytes = << >> THEN << >>
  ELSE IF Head(bytes) = "C3" /\ Len(bytes) >= 2 /\ bytes[2] = "A9"
       THEN << "U+00E9" >> \o toString(SubSeq(bytes, 3, Len(bytes)))
  ELSE IF Head(bytes) \in { "C3", "A9" }
       THEN << "U+FFFD" >> \o toString(Tail(bytes))
  ELSE << Head(bytes) >> \o toString(Tail(bytes))

\* buffer.split('\n')
RECURSIVE split(_)
split(chars) ==
  IF \A i \in DOMAIN chars : chars[i] # "LF" THEN << chars >>
  ELSE LET i == CHOOSE j \in DOMAIN chars :
                  chars[j] = "LF" /\ \A k \in 1..(j - 1) : chars[k] # "LF"
       IN << SubSeq(chars, 1, i - 1) >> \o split(SubSeq(chars, i + 1, Len(chars)))

\* the characters a decoded text consists of
TextChars == { "a", "U+00E9", "U+FFFD" }

\* the body of the loop over the lines: a line is skipped (no data line,
\* or [DONE] for Groq), its payload is rejected by JSON.parse ("bad"), or
\* it holds a text
LineResult(provider, line) ==
  IF line = << >> \/ Head(line) # "data: " THEN [kind |-> "skip", text |-> << >>]
  ELSE LET payload == Tail(line)
       IN IF provider = "groq" /\ payload = << "[DONE]" >>
          THEN [kind |-> "skip", text |-> << >>]
          ELSE IF payload # << >> /\ \A i \in DOMAIN payload : payload[i] \in TextChars
               THEN [kind |-> "text", text |-> payload]
               ELSE [kind |-> "bad", text |-> << >>]

\* the texts the loop posts for a sequence of lines, in order
RECURSIVE Deltas(_, _)
Deltas(provider, lines) ==
  IF lines = << >> THEN << >>
  ELSE LET r == LineResult(provider, Head(lines))
       IN (IF r.kind = "text" THEN << r.text >> ELSE << >>) \o Deltas(provider, Tail(lines))

AnyBad(provider, lines) ==
  \E i \in DOMAIN lines : LineResult(provider, lines[i]).kind = "bad"

\* lines.pop(): the lines of the split without the last entry
PendingLines(parts) == SubSeq(parts, 1, Len(parts) - 1)

\* one iteration of `for await (const chunk of response.data)`: the
\* transport delivers the next n bytes
DecodeChunk(n) ==
  /\ decPosted = ""
  /\ pos + n <= Len(sent)
  /\ LET chunk == SubSeq(sent, pos + 1, pos + n)
         parts == split(buffer \o toString(chunk))
         lines == PendingLines(parts)
     IN /\ buffer' = parts[Len(parts)]
        /\ emitted' = emitted \o Deltas(decProvider, lines)
        /\ sawBad' = (sawBad \/ AnyBad(decProvider, lines))
  /\ pos' = pos + n
  /\ UNCHANGED << decProvider, sent, thrown, decPosted >>
  /\ UNCHANGED << srvVars, chatVars, panelVars, histVars, extVars >>

\* the stream ends: the loop is left and chat:done is posted
DecodeEnd ==
  /\ decPosted = ""
  /\ pos = Len(sent)
  /\ decPosted' = "chat:done"
  /\ UNCHANGED << decProvider, sent, pos, buffer, emitted, sawBad, thrown >>
  /\ UNCHANGED << srvVars, chatVars, panelVars, histVars, extVars >>

\* the stream throws: the catch block of chat:send posts the terminal
\* message
DecodeError(errorMsg) ==
  /\ decPosted = ""
  /\ thrown' = errorMsg
  /\ decPosted' = CatchPosts(errorMsg)
  /\ UNCHANGED << decProvider, sent, pos, buffer, emitted, sawBad >>
  /\ UNCHANGED << srvVars, chatVars, panelVars, histVars, extVars >>

\* ------------------------------------------------------------------------
\* The conversation history: media/chatPanel.js and the chat:send case
\* ------------------------------------------------------------------------
\* the texts a user types and the texts a model streams, in the model
UserTexts == { "hi", "a&b" }
ReplyTexts == { "ok", "**b**", "" }

\* innerHTML of the streaming placeholder
TypingDots == "<div class=typing-dots>"

\* escapeHtml of chatPanel.js, on the texts of the model
escapeHtml(text) ==
  CASE text = "a&b" -> "a&amp;b"
    [] text = "a&amp;b" -> "a&amp;amp;b"
    [] OTHER -> text

\* renderMarkdown: escapeHtml, then the mark-up replacements
renderMarkdown(text) ==
  LET escaped == escapeHtml(text)
  IN IF escaped = "**b**" THEN "<strong>b</strong>" ELSE escaped

\* el.innerText || el.textContent || '', trimmed
innerText(html) ==
  CASE html = "<strong>b</strong>" -> "b"
    [] html = "a&amp;b" -> "a&b"
    [] html = "a&amp;amp;b" -> "a&amp;b"
    [] html = TypingDots -> ""
    [] OTHER -> html

ChatMessage(role, content) == [role |-> role, content |-> content]

\* getHistory(): role and text of every .message.user / .message.assistant
\* element, in document order
RECURSIVE getHistory(_)
getHistory(elements) ==
  IF elements = << >> THEN << >>
  ELSE (IF Head(elements).role \in { "user", "assistant" }
        THEN << ChatMessage(Head(elements).role, innerText(Head(elements).html)) >>
        ELSE << >>) \o getHistory(Tail(elements))

\* the chat:send case: [...history, { role: 'user', content: userText }]
fullHistory(history, userText) == Append(history, ChatMessage("user", userText))

\* what _sendViaCopilot / _sendViaGemini / _sendViaGroq build from the
\* history: the entries that carry the system prompt, and one entry per
\* message of the history
ProviderRequest(provider, history) ==
  [provider |-> provider,
   preamble |->
     IF provider = "copilot"
     THEN << ChatMessage("user", "[CONTEXT] systemPrompt"),
             ChatMessage("assistant", "Understood.") >>
     ELSE << ChatMessage("system", "systemPrompt") >>,
   messages |->
     [i \in DOMAIN history |->
        ChatMessage(IF history[i].role = "user" THEN "user"
                    ELSE IF provider = "gemini" THEN "model" ELSE "assistant",
                    history[i].content)]]

NoRequest == [provider |-> "", preamble |-> << >>, messages |-> << >>]

\* sendMessage() of the panel, and the chat:send case of the provider up to
\* the request it hands to the model
SendMessage(text, provider) ==
  /\ ~isStreaming
  /\ Len(dom) + 2 <= MaxDom
  /\ LET shown == dom \o << [role |-> "user", html |-> renderMarkdown(escapeHtml(text))],
                           [role |-> "assistant", html |-> TypingDots] >>
     IN /\ dom' = shown
        /\ active' = Len(shown)
        /\ request' = ProviderRequest(provider, fullHistory(getHistory(shown), text))
  /\ isStreaming' = TRUE
  /\ UNCHANGED << sends, ctsOwner, abortOwner, posted >>
  /\ UNCHANGED << srvVars, panelVars, decVars, extVars >>

\* onDone(): the streamed text is rendered into the active element
OnDone(streamBuffer) ==
  /\ isStreaming
  /\ dom' = IF active = 0 THEN dom
            ELSE [dom EXCEPT ![active].html = renderMarkdown(streamBuffer)]
  /\ active' = 0
  /\ isStreaming' = FALSE
  /\ request' = NoRequest
  /\ UNCHANGED << sends, ctsOwner, abortOwner, posted >>
  /\ UNCHANGED << srvVars, panelVars, decVars, extVars >>

\* onError(): the active element is removed and an error message appended
OnError ==
  /\ isStreaming
  /\ dom' = (IF active = 0 THEN dom
             ELSE SubSeq(dom, 1, active - 1) \o SubSeq(dom, active + 1, Len(dom)))
            \o << [role |-> "error", html |-> "error"] >>
  /\ Len(dom') <= MaxDom
  /\ active' = 0
  /\ isStreaming' = FALSE
  /\ request' = NoRequest
  /\ UNCHANGED << sends, ctsOwner, abortOwner, posted >>
  /\ UNCHANGED << srvVars, panelVars, decVars, extVars >>

\* clearHistory(): every message element is removed
ClearHistory ==
  /\ dom # << >>
  /\ dom' = << >>
  /\ active' = 0
  /\ request' = NoRequest
  /\ UNCHANGED chatVars
  /\ UNCHANGED << srvVars, panelVars, decVars, extVars >>

\* ------------------------------------------------------------------------
\* extension.ts : the life cycle of the server child process
\* ------------------------------------------------------------------------
\* extension.ts writeServerConfigFile: the file written from the settings;
\* a setting that is not set takes the tool's defaultEnabled
writeServerConfigFile(st) ==
  ServerConfig([id \in AllToolIds |->
                  IF st[id] = "undefined" THEN getDefaultToolsState[id] ELSE st[id]],
               AuthConfig("interactive", "", ""), FALSE, TRUE)

\* serverProcess && !serverProcess.killed
Held == serverProcess # 0 /\ ~children[serverProcess].killed

\* the onDidChangeConfiguration listener of activate, run once the update
\* of a setting has been stored: writeServerConfigFile()
OnDidChangeConfiguration ==
  /\ cfgFile # writeServerConfigFile(settings)
  /\ cfgFile' = writeServerConfigFile(settings)
  /\ fileChanged' = (srv = "running")
  /\ ev' = NoEvent
  /\ UNCHANGED << envReadOnly, srv, toolsState, loadedRO, auth, calls, now,
                  issued, lastAcq >>
  /\ UNCHANGED << chatVars, panelVars, restVars >>

\* a failed spawn emits 'error' on the next tick, before any timer of
\* 500 ms fires
ErrorPending == \E p \in DOMAIN children : children[p].state = "failed"

\* startServer, past its early return. scriptExists: fs.existsSync finds
\* dist/mcpServer.js; spawns: the operating system starts the process (if
\* not, the ChildProcess object exists and will emit 'error')
startServer(scriptExists, spawns) ==
  /\ cfgFile' = writeServerConfigFile(settings)
  /\ fileChanged' = (srv = "running")
  /\ IF ~scriptExists
     THEN /\ serverStatus' = "error"
          /\ UNCHANGED << serverProcess, children, timers >>
     ELSE /\ children' = Append(children,
                                [state |-> IF spawns THEN "live" ELSE "failed",
                                 killed |-> FALSE])
          /\ serverProcess' = Len(children) + 1
          /\ timers' = timers + 1
          /\ serverStatus' = "starting"
  /\ UNCHANGED << envReadOnly, srv, toolsState, loadedRO, auth, calls, now,
                  issued, lastAcq, ev >>
  /\ UNCHANGED << chatVars, panelVars, decVars, histVars >>

\* stopServer: kill() sets killed only when it could send the signal, that
\* is when the object has a running process
stopServer ==
  /\ IF Held
     THEN /\ children' = [children EXCEPT ![serverProcess].killed =
                                           (children[serverProcess].state = "live")]
          /\ serverProcess' = 0
     ELSE UNCHANGED << serverProcess, children >>
  /\ serverStatus' = "stopped"

\* the command powerbiMcpAec.startServer (and the auto-start of activate)
StartCommand(scriptExists, spawns) ==
  /\ ~Held
  /\ Len(children) < MaxSpawns
  /\ startServer(scriptExists, spawns)
  /\ UNCHANGED waits

\* the command powerbiMcpAec.stopServer (and deactivate)
StopCommand ==
  /\ stopServer
  /\ UNCHANGED << timers, waits >>
  /\ UNCHANGED << srvVars, chatVars, panelVars, decVars, histVars >>

\* restartServer up to its await
RestartCommand ==
  /\ waits < MaxWaits
  /\ stopServer
  /\ waits' = waits + 1
  /\ UNCHANGED timers
  /\ UNCHANGED << srvVars, chatVars, panelVars, decVars, histVars >>

\* restartServer after its await: startServer(context)
RestartResume(scriptExists, spawns) ==
  /\ waits > 0
  /\ ~ErrorPending
  /\ waits' = waits - 1
  /\ IF Held
     THEN /\ UNCHANGED << serverProcess, serverStatus, children, timers >>
          /\ UNCHANGED << srvVars, chatVars, panelVars, decVars, histVars >>
     ELSE /\ Len(children) < MaxSpawns
          /\ startServer(scriptExists, spawns)

\* the callback of the setTimeout(..., 500) of startServer
StartTimer ==
  /\ timers > 0
  /\ ~ErrorPending
  /\ timers' = timers - 1
  /\ serverStatus' = IF Held THEN "running" ELSE serverStatus
  /\ UNCHANGED << serverProcess, children, waits >>
  /\ UNCHANGED << srvVars, chatVars, panelVars, decVars, histVars >>

\* the 'exit' listener of child p: the process has ended, by itself or
\* after the signal of kill(); after a failed spawn Node may or may not
\* emit 'exit' once it has emitted 'error'
ExitEvent(p) ==
  /\ children[p].state \in { "live", "errored" }
  /\ children' = [children EXCEPT ![p].state = "exited"]
  /\ serverProcess' = 0
  /\ serverStatus' = "stopped"
  /\ UNCHANGED << timers, waits >>
  /\ UNCHANGED << srvVars, chatVars, panelVars, decVars, histVars >>

\* the 'error' listener of child p: the process could not be spawned
ErrorEvent(p) ==
  /\ children[p].state = "failed"
  /\ children' = [children EXCEPT ![p].state = "errored"]
  /\ serverStatus' = "error"
  /\ UNCHANGED << serverProcess, timers, waits >>
  /\ UNCHANGED << srvVars, chatVars, panelVars, decVars, histVars >>

InitChatVars ==
  /\ isStreaming = FALSE
  /\ sends = [s \in SendIds |-> NoSend]
  /\ ctsOwner = NoOwner
  /\ abortOwner = NoOwner
  /\ posted = NoPost

InitPanelVars ==
  /\ settings = [id \in AllToolIds |-> "undefined"]
  /\ inbox = << >>
  /\ applied = ""

\* no response is being decoded
InitDecVars ==
  /\ decProvider = "gemini"
  /\ sent = << >>
  /\ pos = 0
  /\ buffer = << >>
  /\ emitted = << >>
  /\ sawBad = FALSE
  /\ thrown = ""
  /\ decPosted = ""

\* an empty chat panel
InitHistVars ==
  /\ dom = << >>
  /\ active = 0
  /\ request = NoRequest

\* the extension after activate() without auto-start
InitExtVars ==
  /\ serverProcess = 0
  /\ serverStatus = "stopped"
  /\ children = << >>
  /\ timers = 0
  /\ waits = 0

InitRestVars ==
  /\ InitDecVars
  /\ InitHistVars
  /\ InitExtVars

InitServerVars ==
  /\ fileChanged = FALSE
  /\ toolsState = EmptyObject
  /\ loadedRO = FALSE
  /\ calls = EmptyBag
  /\ now = 0
  /\ issued = 0
  /\ lastAcq = NoAcq
  /\ ev = NoEvent

\* the server process: started on some file content, then driven by file
\* writes, the watcher and tool calls
Init ==
  /\ cfgFile \in FileContents
  /\ envReadOnly \in BOOLEAN
  /\ srv = "init"
  /\ auth = NewAuthProvider(DefaultAuth)
  /\ InitServerVars
  /\ InitChatVars
  /\ InitPanelVars
  /\ InitRestVars

Next ==
  \/ Main
  \/ \E content \in FileContents : WriteFile(content)
  \/ WatchFileCallback
  \/ ClearTokenCommand
  \/ \E name \in CallNames : CallTool(name)
  \/ \E c \in InFlightCalls, ok \in BOOLEAN : RemoteResult(c, ok)
  \/ \E c \in InFlightCalls, b \in BOOLEAN : AccountsResolved(c, b)
  \/ \E c \in InFlightCalls, ok \in BOOLEAN, life \in Lifetimes : SilentResult(c, ok, life)
  \/ \E c \in InFlightCalls, ok \in BOOLEAN, life \in Lifetimes : RequestResult(c, ok, life)

Spec == Init /\ [][Next]_vars

\* fs.watchFile polls the file at a fixed interval for as long as the
\* process runs: a change that is waiting is seen by the callback
LiveSpec == Init /\ [][Next]_vars /\ WF_vars(WatchFileCallback)

\* the AuthProvider alone, under every order of calls of its methods
AuthInit ==
  /\ cfgFile = Malformed
  /\ envReadOnly = FALSE
  /\ srv = "init"
  /\ \E config \in AuthConfigs \cup {DefaultAuth} : auth = NewAuthProvider(config)
  /\ InitServerVars
  /\ InitChatVars
  /\ InitPanelVars
  /\ InitRestVars

AuthNext ==
  \/ GetAccessToken
  \/ \E config \in AuthConfigs : UpdateConfig(config)
  \/ ClearCache
  \/ Tick
  \/ \E c \in InFlightCalls, b \in BOOLEAN : AccountsResolved(c, b)
  \/ \E c \in InFlightCalls, ok \in BOOLEAN, life \in Lifetimes : SilentResult(c, ok, life)
  \/ \E c \in InFlightCalls, ok \in BOOLEAN, life \in Lifetimes : RequestResult(c, ok, life)

AuthSpec == AuthInit /\ [][AuthNext]_vars

\* the chat panel and its provider
ChatInit ==
  /\ cfgFile = Malformed
  /\ envReadOnly = FALSE
  /\ srv = "init"
  /\ auth = NewAuthProvider(DefaultAuth)
  /\ InitServerVars
  /\ InitChatVars
  /\ InitPanelVars
  /\ InitRestVars

ChatNext ==
  \/ \E provider \in Providers : ChatSend(provider)
  \/ ChatCancel
  \/ WebviewReload
  \/ \E s \in SendIds, found \in BOOLEAN : ModelsSelected(s, found)
  \/ \E s \in SendIds, hasKey \in BOOLEAN : KeyResolved(s, hasKey)
  \/ \E s \in SendIds, ok \in BOOLEAN : RequestSettled(s, ok)
  \/ \E s \in SendIds, hasText \in BOOLEAN : StreamRead(s, hasText)
  \/ \E s \in SendIds : StreamEnd(s)
  \/ \E s \in SendIds : StreamError(s)

ChatSpec == ChatInit /\ [][ChatNext]_vars

\* the server process under file writes, with reloads that succeed and
\* reloads in which the construction of the MSAL client throws
ReloadNext ==
  \/ Main
  \/ \E content \in FileContents : WriteFile(content)
  \/ WatchFileCallback
  \/ WatchFileCallbackThrows
  \/ ClearTokenCommand

ReloadSpec == Init /\ [][ReloadNext]_vars

\* the configuration panel and its provider
PanelInit ==
  /\ cfgFile = Malformed
  /\ envReadOnly = FALSE
  /\ srv = "init"
  /\ auth = NewAuthProvider(DefaultAuth)
  /\ InitServerVars
  /\ InitChatVars
  /\ InitPanelVars
  /\ InitRestVars

PanelNext ==
  \/ \E name \in ProfileNames : PanelApplyProfile(name)
  \/ \E id \in ToggleIds, enabled \in BOOLEAN : PanelToggle(id, enabled)
  \/ HandleUpdateConfig

PanelSpec == PanelInit /\ [][PanelNext]_vars

\* the decode loop over every response body and every way the transport
\* cuts it into chunks
DecodeInit ==
  /\ cfgFile = Malformed
  /\ envReadOnly = FALSE
  /\ srv = "init"
  /\ auth = NewAuthProvider(DefaultAuth)
  /\ InitServerVars
  /\ InitChatVars
  /\ InitPanelVars
  /\ decProvider \in { "gemini", "groq" }
  /\ sent \in ResponseBodies
  /\ pos = 0
  /\ buffer = << >>
  /\ emitted = << >>
  /\ sawBad = FALSE
  /\ thrown = ""
  /\ decPosted = ""
  /\ InitHistVars
  /\ InitExtVars

DecodeNext ==
  \/ \E n \in 1..MaxChunk : DecodeChunk(n)
  \/ DecodeEnd
  \/ \E errorMsg \in { "aborted", "canceled" } : DecodeError(errorMsg)

DecodeSpec == DecodeInit /\ [][DecodeNext]_vars

\* the chat panel's message list over several exchanges
HistoryInit == PanelInit

HistoryNext ==
  \/ \E text \in UserTexts, provider \in Providers : SendMessage(text, provider)
  \/ \E streamBuffer \in ReplyTexts : OnDone(streamBuffer)
  \/ OnError
  \/ ClearHistory

HistorySpec == HistoryInit /\ [][HistoryNext]_vars

\* the extension's commands, its timers and the events of its child
\* processes, in any order
ExtInit == PanelInit

ExtNext ==
  \/ \E scriptExists, spawns \in BOOLEAN : StartCommand(scriptExists, spawns)
  \/ StopCommand
  \/ RestartCommand
  \/ \E scriptExists, spawns \in BOOLEAN : RestartResume(scriptExists, spawns)
  \/ StartTimer
  \/ \E p \in DOMAIN children : ExitEvent(p)
  \/ \E p \in DOMAIN children : ErrorEvent(p)

ExtSpec == ExtInit /\ [][ExtNext]_vars

\* the profiles the user clicks in ProfileSpec
ProfileClicks == { "readOnly", "full" }

\* the panel, the extension's configuration listener and the server that
\* startServer spawns on the file written from the settings; the listener
\* runs for each stored update before the next update is stored
ProfileInit ==
  /\ cfgFile = writeServerConfigFile([id \in AllToolIds |-> "undefined"])
  /\ envReadOnly = FALSE
  /\ srv = "init"
  /\ auth = NewAuthProvider(DefaultAuth)
  /\ InitServerVars
  /\ InitChatVars
  /\ InitPanelVars
  /\ InitRestVars

\* the user clicks a profile once the previous one has been handled
ClickProfile(name) ==
  /\ inbox = << >>
  /\ PanelApplyProfile(name)

\* vsConfig.update stores the next update once the listener has run for
\* the previous one
StoreUpdate ==
  /\ cfgFile = writeServerConfigFile(settings)
  /\ HandleUpdateConfig

ProfileNext ==
  \/ Main
  \/ \E name \in ProfileClicks : ClickProfile(name)
  \/ StoreUpdate
  \/ OnDidChangeConfiguration
  \/ WatchFileCallback

ProfileSpec == ProfileInit /\ [][ProfileNext]_vars

\* ------------------------------------------------------------------------
\* Properties
\* ------------------------------------------------------------------------
\* the latest step was a getAccessToken call coming to its first suspension
\* (directly, or from the handler of a dispatched tool)
CallStarted == ev.kind \in { "get", "call" } /\ ev.pc # ""

\* C1: whenever the configuration loaded last has readOnly = true, no
\* destructive tool is listed and none gets through dispatchToolCall.
C1_ReadOnlyDisablesDestructive ==
  (srv = "running" /\ loadedRO) =>
    \A id \in DestructiveIds :
      /\ id \notin getEnabledToolDefinitions(toolsState)
      /\ dispatchToolCall(id, toolsState) # "handler"

\* C2: a call of a registered tool whose toolsState entry is false or
\* absent is answered with the tool-disabled error; its handler is not
\* invoked, so no getAccessToken call is made for it.
C2_DisabledToolNeverRuns ==
  (/\ ev.kind = "call"
   /\ ev.name \in TOOL_REGISTRY
   /\ Lookup(toolsState, ev.name) \in { "false", "undefined" })
  => (/\ ev.outcome = "ToolDisabled"
      /\ ev.pc = ""
      /\ ev.token = NoToken
      /\ ~ev.attempted)

C2_Witness ==
  /\ ev.kind = "call"
  /\ ev.name = "table_operations"
  /\ Lookup(toolsState, ev.name) = "false"
  /\ ev.outcome = "ToolDisabled"

\* C3: a call of a tool id that is not a key of the registry is answered
\* with the unknown-tool error, and no handler is invoked.
C3_UnknownToolRejected ==
  (ev.kind = "call" /\ ev.name \notin TOOL_REGISTRY)
  => (ev.outcome = "UnknownTool" /\ ev.pc = "")

\* C4: a getAccessToken call returns no token that was requested under a
\* configuration older than the one that was active when the call started.
C4_NoTokenFromOldConfig ==
  (ev.kind \in { "get", "call", "settle" } /\ ev.pc = "returned")
  => ev.token.epoch >= ev.startEpoch

\* C5 (as stated): a getAccessToken call made within 5 minutes of the
\* latest successful acquisition, with no updateConfig or clearCache in
\* between, returns that acquisition's token without a token request.
C5_SecondCallWithinFiveMinutes ==
  (CallStarted /\ lastAcq # NoAcq /\ now - lastAcq.at <= BufferMinutes)
  => (ev.pc = "returned" /\ ev.token.id = lastAcq.id /\ ~ev.attempted)

\* C5 (amended): a getAccessToken call made while the token of the latest
\* successful acquisition has a recorded expiry more than 5 minutes away,
\* with no updateConfig or clearCache in between, returns that token
\* without a token request.
C5_SecondCallBeforeExpiryBuffer ==
  (/\ CallStarted
   /\ lastAcq # NoAcq
   /\ lastAcq.expiresOn # NoExpiry
   /\ lastAcq.expiresOn - now > BufferMinutes)
  => (ev.pc = "returned" /\ ev.token.id = lastAcq.id /\ ~ev.attempted)

C5_Witness ==
  /\ ev.kind = "get"
  /\ lastAcq # NoAcq
  /\ now > lastAcq.at
  /\ lastAcq.expiresOn - now > BufferMinutes
  /\ ev.pc = "returned"
  /\ ev.token.id = lastAcq.id

\* C9: a watcher callback that finds content that does not parse leaves
\* toolsState, the active AuthConfig and the cached token as they were.
C9_MalformedKeepsLastGood ==
  [][(ev'.kind = "reload" /\ ~cfgFile.parses)
     => (/\ toolsState' = toolsState
         /\ auth'.config = auth.config
         /\ auth'.cachedToken = auth.cachedToken)]_vars

\* C10: while the active AuthConfig is clientCredentials with an empty
\* tenantId or clientSecret, a getAccessToken call fails at once, without
\* a token request.
C10_ClientCredentialsFailFast ==
  (/\ CallStarted
   /\ auth.config.method = "clientCredentials"
   /\ (auth.config.tenantId = "" \/ auth.config.clientSecret = ""))
  => (ev.pc = "failed" /\ ~ev.attempted)

\* ------------------------------------------------------------------------
\* The chat relay
\* ------------------------------------------------------------------------
Terminals == { "chat:done", "chat:error" }

\* C6: a chat:cancel handled while a chat:send is in flight makes that send
\* end with chat:done, never with chat:error, and no chat:chunk of it is
\* posted after the cancel was handled, for all three providers and at
\* whatever point of the send the cancel arrives.
C6_CancelEndsWithDone ==
  posted.afterCancel => posted.type \notin { "chat:chunk", "chat:error" }

\* C7: every chat:send gets exactly one terminal message (chat:done or
\* chat:error) and it is the last message posted for that send: the step
\* in which a handler returns posts one terminal message, and a terminal
\* message is posted only by the step in which the handler returns.
C7_ExactlyOneTerminal ==
  /\ posted.ended => posted.type \in Terminals
  /\ posted.type \in Terminals => (posted.ended /\ ~InFlight(posted.send))

\* a send that is cancelled while its response streams ends with chat:done
C7_Witness ==
  /\ posted.type = "chat:done"
  /\ posted.ended
  /\ posted.afterCancel

\* C8: the provider never has two generations in flight: a chat:send that
\* arrives while another is in flight is rejected, or the running one is
\* cancelled first.
C8_OneGenerationAtATime ==
  Cardinality({ s \in SendIds : InFlight(s) }) <= 1

\* ------------------------------------------------------------------------
\* Permission profiles
\* ------------------------------------------------------------------------
\* C11: the state applyProfile returns for a profile is the profile's
\* predicate over ALL_TOOLS; once the last message of an applied profile has
\* been handled, the setting of every tool of ALL_TOOLS equals the profile's
\* predicate on that tool, whatever the settings were before; and each
\* message of a second application of the profile leaves the settings as
\* they are.
C11_ProfileIsPredicateOverRegistry ==
  /\ \A name \in ProfileNames :
       LET state == applyProfile(name)
       IN /\ DOMAIN state = AllToolIds
          /\ \A i \in DOMAIN ALL_TOOLS :
               state[ALL_TOOLS[i].id] = BoolVal(ProfilePredicate(name, ALL_TOOLS[i]))
  /\ applied # "" =>
       LET state == applyProfile(applied)
       IN \A i \in DOMAIN ALL_TOOLS :
            /\ settings[ALL_TOOLS[i].id] = BoolVal(ProfilePredicate(applied, ALL_TOOLS[i]))
            /\ UpdateSetting(settings, ALL_TOOLS[i].id,
                             PostedValue(state, ALL_TOOLS[i].id)) = settings

\* a profile applied over settings that disagreed with it
C11_Witness ==
  /\ applied = "Somente Leitura"
  /\ settings["table_operations"] = "false"
  /\ settings["get_semantic_model_schema"] = "true"
  /\ inbox # << >>

\* ------------------------------------------------------------------------
\* Effective tool states of the server
\* ------------------------------------------------------------------------
\* C12: right after the server has loaded a configuration (at start-up or in
\* the watcher callback), the entry of every tool the read-only pass has not
\* overwritten is the value the loaded configuration holds for the tool, and
\* the tool's defaultEnabled when the configuration holds none.
C12_MissingEntryTakesDefault ==
  ev.kind \in {"main", "reload"} =>
    LET config == loadConfig(cfgFile, envReadOnly)
    IN \A i \in DOMAIN ALL_TOOLS :
         LET tool == ALL_TOOLS[i]
         IN (loadedRO /\ ev.kind = "main" => ~tool.isDestructive) =>
              /\ tool.id \in DOMAIN toolsState
              /\ toolsState[tool.id] =
                   IF tool.id \in DOMAIN config.tools THEN config.tools[tool.id]
                   ELSE BoolVal(tool.defaultEnabled)

\* ------------------------------------------------------------------------
\* Answers to failed tool calls
\* ------------------------------------------------------------------------
\* the failure class of the tool call the latest step answered with an
\* error ("" when it answered none with an error)
FailureClass ==
  CASE ev.kind = "call" /\ ev.outcome \in {"UnknownTool", "TypeError"} -> "UnknownTool"
    [] ev.kind = "call" /\ ev.outcome = "ToolDisabled" -> "ToolDisabled"
    [] ev.kind \in {"call", "settle"} /\ ev.name # "" /\ ev.pc = "failed" -> "AuthFailure"
    [] ev.kind = "result" /\ ev.outcome = "UpstreamFailure" -> "UpstreamFailure"
    [] OTHER -> ""

\* C13: a tool call that fails is answered with an error whose code is the
\* class of the failure: UnknownTool, ToolDisabled, AuthFailure or
\* UpstreamFailure.
C13_ErrorCodeNamesFailureClass ==
  FailureClass # "" => ev.code = FailureClass

\* ------------------------------------------------------------------------
\* Snapshots of the tool states
\* ------------------------------------------------------------------------
\* ts with every destructive tool switched off
AllDestructiveOff(ts) ==
  [id \in DOMAIN ts \cup DestructiveIds |-> IF id \in DestructiveIds THEN "false" ELSE ts[id]]

\* C14: whenever the running server can answer a list-tools request or
\* dispatch a call, toolsState is the whole tools section of one loaded
\* configuration, either as loaded or with every destructive tool switched
\* off: never a mixture of two configurations and never a state in which
\* only some of the destructive tools have been switched off.
C14_SnapshotIsWhole ==
  srv = "running" =>
    \E content \in FileContents, envRO \in BOOLEAN :
      LET config == loadConfig(content, envRO)
      IN \/ toolsState = config.tools
         \/ toolsState = AllDestructiveOff(config.tools)

\* a call dispatched on the state the read-only pass of start-up produced
C14_Witness ==
  /\ ev.kind = "call"
  /\ loadedRO
  /\ auth.epoch = 0
  /\ toolsState = AllDestructiveOff(AllEnabled)

\* ------------------------------------------------------------------------
\* Tokens and configuration epochs
\* ------------------------------------------------------------------------
\* C15: the token a getAccessToken call returns was requested while the
\* configuration that was active when the call started was still the active
\* one, from the client object built for that configuration.
C15_TokenOfTheCallersEpoch ==
  (ev.kind \in { "get", "call", "settle" } /\ ev.pc = "returned")
  => (ev.token.epoch = ev.startEpoch /\ ev.token.client = ev.startEpoch)

\* C16: a getAccessToken call returns from the cache, without a token
\* request, exactly when a token with a recorded expiry more than 5 minutes
\* away is cached, and then it returns that token; in every other case it
\* goes on to acquireToken, and the token an acquisition returns is the
\* cached token from then on.
C16_CacheOnlyBeyondBuffer ==
  /\ CallStarted =>
       /\ (ev.pc = "returned") <=>
            (/\ auth.cachedToken # NoToken
             /\ auth.cachedToken.expiresOn # NoExpiry
             /\ auth.cachedToken.expiresOn - now > BufferMinutes)
       /\ ev.pc = "returned" => (ev.token = auth.cachedToken /\ ~ev.attempted)
  /\ (ev.kind = "settle" /\ ev.pc = "returned") =>
       (ev.attempted /\ auth.cachedToken = ev.token /\ ev.token # NoToken)

\* a call made when the cached token has exactly 5 minutes left goes on to
\* a fresh acquisition
C16_Witness ==
  /\ CallStarted
  /\ auth.cachedToken # NoToken
  /\ auth.cachedToken.expiresOn - now = BufferMinutes
  /\ ev.pc \in Requesting \cup { "accounts" }

\* ------------------------------------------------------------------------
\* Dynamic reload
\* ------------------------------------------------------------------------
\* the tool states a configuration stands for: the value of its tools
\* section or else the tool's default, and every destructive tool off when
\* the configuration is read-only
EffectiveTools(config) ==
  [id \in AllToolIds |->
     IF config.readOnly /\ id \in DestructiveIds THEN "false"
     ELSE IF id \in DOMAIN config.tools THEN config.tools[id]
     ELSE getDefaultToolsState[id]]

\* C17: once the file of the running server has changed to a configuration
\* that parses, then, unless the file changes again, the server comes to
\* gate on the effective tool states of that configuration and to hold its
\* AuthConfig, without a restart.
C17_ReloadTakesEffect ==
  \A content \in { c \in FileContents : c.parses } :
    (srv = "running" /\ fileChanged /\ cfgFile = content)
      ~> \/ cfgFile # content
         \/ /\ ~fileChanged
            /\ \A id \in AllToolIds :
                 dispatchToolCall(id, toolsState) = dispatchToolCall(id, EffectiveTools(content))
            /\ getEnabledToolDefinitions(toolsState) = getEnabledToolDefinitions(EffectiveTools(content))
            /\ auth.config = content.auth

\* ------------------------------------------------------------------------
\* Confirmation of destructive operations
\* ------------------------------------------------------------------------
\* C18: while the configuration the server loaded has requireConfirmation =
\* true, a tool call does not start the handler of a destructive tool; the
\* server has no confirmation step, so a handler that starts has started
\* without one.
C18_DestructiveNeedsConfirmation ==
  (/\ srv = "running"
   /\ ~fileChanged
   /\ loadConfig(cfgFile, envReadOnly).requireConfirmation
   /\ ev.kind = "call"
   /\ ev.name \in DestructiveIds)
  => ev.outcome # "handler"

\* ------------------------------------------------------------------------
\* The clear-token command
\* ------------------------------------------------------------------------
\* C19: the getAccessToken call the server makes next after the
\* clear-token command has completed does not return a token from the
\* cache: it goes on to a fresh acquisition.
C19_ClearTokenForcesAcquisition ==
  [][(ev.kind = "clearToken" /\ CallStarted') => ev'.pc # "returned"]_vars

\* ------------------------------------------------------------------------
\* Failed acquisitions
\* ------------------------------------------------------------------------
\* C20: the step in which a getAccessToken call fails ends that call (no
\* request of the call is pending afterwards, none is issued in its place)
\* and leaves the cached token, the configuration and the client objects of
\* the AuthProvider as they were.
C20_FailurePropagatesOnce ==
  [][(ev'.kind \in { "get", "call", "settle" } /\ ev'.pc = "failed")
     => (/\ auth' = auth
         /\ issued' = issued
         /\ BagToSet(calls') \subseteq BagToSet(calls)
         /\ BagCardinality(calls') =
              BagCardinality(calls) - (IF ev'.kind = "settle" THEN 1 ELSE 0))]_vars

\* a rejected token request, with the token of an earlier acquisition
\* still cached
C20_Witness ==
  /\ ev.kind = "settle"
  /\ ev.pc = "failed"
  /\ ev.attempted
  /\ auth.cachedToken # NoToken
  /\ calls = EmptyBag

\* ------------------------------------------------------------------------
\* Reloads and the AuthProvider
\* ------------------------------------------------------------------------
\* C21: a watcher callback that loads a configuration whose auth section
\* equals the active AuthConfig leaves the cached token and the client
\* objects of the AuthProvider as they were.
C21_SameAuthKeepsTokenAndClients ==
  [][(ev'.kind = "reload" /\ loadConfig(cfgFile, envReadOnly).auth = auth.config)
     => (/\ auth'.cachedToken = auth.cachedToken
         /\ auth'.pca = auth.pca
         /\ auth'.cca = auth.cca)]_vars

\* ------------------------------------------------------------------------
\* The decode loop
\* ------------------------------------------------------------------------
\* C22: once a data line whose payload cannot be decoded has been met, or
\* the transport has thrown an error that is no cancellation, chat:error has
\* been posted for the send (and the loop, being left, posts nothing more).
C22_DecodeErrorEndsWithError ==
  (sawBad \/ thrown \notin CancelMessages \cup { "" }) => decPosted = "chat:error"

\* the texts of the data lines of a complete body, the last line included
WholeDeltas(provider, bytes) == Deltas(provider, split(toString(bytes)))

\* C27: when the stream has ended, the texts posted as chat:chunk are the
\* texts of the well-formed data lines of the complete byte sequence, in
\* order, however the transport cut the bytes into chunks.
C27_ChunksIndependentOfReads ==
  (decPosted = "chat:done" /\ thrown = "") => emitted = WholeDeltas(decProvider, sent)

\* ------------------------------------------------------------------------
\* The message list of a chat send
\* ------------------------------------------------------------------------
\* the history with the roles of the panel (Gemini's "model" is "assistant")
PanelRoles(messages) ==
  [i \in DOMAIN messages |->
     ChatMessage(IF messages[i].role = "model" THEN "assistant" ELSE messages[i].role,
                 messages[i].content)]

\* C23: the message list a chat send hands to the model is the system
\* preamble, then the history the panel held before the send, in order,
\* then the new user message once, as the last entry.
C23_HistoryThenNewMessageOnce ==
  [][\A text \in UserTexts, provider \in Providers :
       SendMessage(text, provider) =>
         /\ request'.preamble # << >>
         /\ PanelRoles(request'.messages) =
              Append(getHistory(dom), ChatMessage("user", text))]_vars

\* ------------------------------------------------------------------------
\* The three permission checks
\* ------------------------------------------------------------------------
\* C24: on the tool states the server holds, and for every tool id of the
\* registry, the tool is listed by getEnabledToolDefinitions exactly when
\* dispatchToolCall does not reject it as disabled, and exactly when
\* isToolAllowed returns true.
C24_PermissionChecksAgree ==
  srv = "running" =>
    \A id \in TOOL_REGISTRY :
      /\ (id \in getEnabledToolDefinitions(toolsState))
           <=> (dispatchToolCall(id, toolsState) # "ToolDisabled")
      /\ (id \in getEnabledToolDefinitions(toolsState))
           <=> isToolAllowed(id, toolsState)

\* ------------------------------------------------------------------------
\* ALL_TOOLS and TOOL_REGISTRY
\* ------------------------------------------------------------------------
\* C25: a call of a tool of ALL_TOOLS that is enabled in the server's tool
\* states finds its handler in TOOL_REGISTRY: it is not answered with the
\* unknown-tool error.
C25_DeclaredToolsHaveHandlers ==
  (ev.kind = "call" /\ ev.name \in AllToolIds /\ Truthy(Lookup(toolsState, ev.name)))
    => ev.outcome # "UnknownTool"

\* no two descriptors of ALL_TOOLS have the same id
IdsUnique == \A i, j \in DOMAIN ALL_TOOLS : ALL_TOOLS[i].id = ALL_TOOLS[j].id => i = j

\* every key of TOOL_REGISTRY is the id of exactly one descriptor
RegistryDeclaredOnce ==
  \A key \in TOOL_REGISTRY :
    Cardinality({ i \in DOMAIN ALL_TOOLS : ALL_TOOLS[i].id = key }) = 1

\* the default state and every profile assign a value to every key
RegistryCovered ==
  /\ TOOL_REGISTRY \subseteq DOMAIN getDefaultToolsState
  /\ \A name \in ProfileNames : TOOL_REGISTRY \subseteq DOMAIN buildProfileState(name)

\* the keys of the registry the read-only pass must switch off
RegistryDestructive == { key \in TOOL_REGISTRY : key \in DestructiveIds \/ key \notin AllToolIds }

\* C26: no two descriptors of ALL_TOOLS have the same id and every key of
\* TOOL_REGISTRY is the id of exactly one descriptor; hence the default
\* state and every permission profile assign a value to every key of the
\* registry, and after the read-only pass of start-up no destructive tool
\* of the registry is listed or dispatched.
C26_RegistryKeysAreDeclaredOnce ==
  /\ IdsUnique
  /\ RegistryDeclaredOnce
  /\ RegistryCovered
  /\ (srv = "running" /\ loadedRO /\ auth.epoch = 0) =>
       LET listed == getEnabledToolDefinitions(toolsState)
       IN  \A key \in RegistryDestructive :
             /\ key \notin listed
             /\ dispatchToolCall(key, toolsState) = "ToolDisabled"

\* a destructive tool of the registry, enabled in the file, called after the
\* read-only pass of start-up
C26_Witness ==
  /\ ev.kind = "call"
  /\ ev.name = "table_operations"
  /\ ev.outcome = "ToolDisabled"
  /\ loadedRO
  /\ auth.epoch = 0
  /\ cfgFile.parses
  /\ Lookup(cfgFile.tools, "table_operations") = "true"

\* ------------------------------------------------------------------------
\* The server child process of the extension
\* ------------------------------------------------------------------------
\* a child process that runs and that kill() has not signalled
LiveChildren == { p \in DOMAIN children : children[p].state = "live" /\ ~children[p].killed }

\* C28: at most one server child process is live, serverProcess refers to
\* it whenever one is live, and serverStatus is 'running' only while
\* serverProcess refers to a live child process.
C28_OneLiveChildHeld ==
  /\ Cardinality(LiveChildren) <= 1
  /\ \A p \in LiveChildren : serverProcess = p
  /\ serverStatus = "running" => serverProcess \in LiveChildren

\* ------------------------------------------------------------------------
\* A permission profile as the server sees it
\* ------------------------------------------------------------------------
\* the settings once every updateConfig message of a profile is stored
ProfileSettings(name) ==
  LET state == applyProfile(name)
  IN  [id \in AllToolIds |-> PostedValue(state, id)]

\* the tool states of the file before any profile, and after a whole one
WholeStates ==
  { writeServerConfigFile([id \in AllToolIds |-> "undefined"]).tools }
    \cup { writeServerConfigFile(ProfileSettings(name)).tools : name \in ProfileNames }

C30_ReloadAllOrNothing ==
  [][ev'.kind = "reload" =>
       IF ~cfgFile.parses \/ ev'.outcome = "threw"
       THEN /\ toolsState' = toolsState
            /\ auth'.config = auth.config
            /\ auth'.pca = auth.pca
            /\ auth'.cca = auth.cca
            /\ auth'.cachedToken = auth.cachedToken
       ELSE /\ toolsState' = cfgFile.tools
            /\ auth'.config = cfgFile.auth
            /\ auth'.cachedToken = NoToken
            /\ auth'.epoch \in { auth'.pca, auth'.cca }]_vars

====
